---- MODULE Spec2Model ----
(***************************************************************************)
(* The SoCal wildfire evacuation zone finder (streamlit_app.py): the text  *)
(* area is parsed into addresses, the "Check Zones" button validates the   *)
(* batch, fetches the zone feed, geocodes every address and classifies the *)
(* located ones against the feed's zone records.                           *)
(*                                                                         *)
(* Texts are sequences of one-character strings.  Distances are whole      *)
(* hundredths of a mile.  The zone geometry is kept as what the geometry   *)
(* library and the haversine function answer for the located coordinate:   *)
(* whether the polygon contains it, and the haversine distance from it to  *)
(* each vertex of the exterior ring.  Every address the geocoder locates   *)
(* in one batch is taken to lie at that one coordinate.                    *)
(***************************************************************************)
EXTENDS Integers, Sequences, FiniteSets, TLC

VARIABLES address_input, api_key, feed, pc, warning, fetches, geojson_data,
          results, idx, geocode_calls, outcome, zones, error

vars == <<address_input, api_key, feed, pc, warning, fetches, geojson_data,
          results, idx, geocode_calls, outcome, zones, error>>

----------------------------------------------------------------------------
(* Bounds of the model *)

MaxTextLen == 4

MaxFeatures == 2

MaxDist == 2

(* Program constants *)

MaxAddresses == 10

SliceEnd == 10

Inf == 1000000

None == "None"

----------------------------------------------------------------------------
(* Text parsing: address_input.strip().split("\n") *)

Chars == {"a", " ", "\n"}

Whitespace == {" ", "\n"}

RECURSIVE LStrip(_)
LStrip(s) ==
    IF s # <<>> /\ Head(s) \in Whitespace THEN LStrip(Tail(s)) ELSE s

RECURSIVE RStrip(_)
RStrip(s) ==
    IF s # <<>> /\ s[Len(s)] \in Whitespace
    THEN RStrip(SubSeq(s, 1, Len(s) - 1))
    ELSE s

Strip(s) == RStrip(LStrip(s))

RECURSIVE SplitFrom(_, _)
SplitFrom(s, cur) ==
    IF s = <<>> THEN <<cur>>
    ELSE IF Head(s) = "\n" THEN <<cur>> \o SplitFrom(Tail(s), <<>>)
    ELSE SplitFrom(Tail(s), Append(cur, Head(s)))

Split(s) == SplitFrom(s, <<>>)

ParseAddresses(text) == Split(Strip(text))

addresses == ParseAddresses(address_input)

NoAddress(addrs) == addrs = <<>> \/ addrs = << <<>> >>

(* the limit taken one too high *)
TooManyOffByOne(addrs) == Len(addrs) > MaxAddresses + 1

TooManyAddresses(addrs) == Len(addrs) > MaxAddresses

(* the slice taken one too short *)
BatchShort(addrs) ==
    SubSeq(addrs, 1, IF Len(addrs) < SliceEnd - 1 THEN Len(addrs) ELSE SliceEnd - 1)

Batch(addrs) ==
    SubSeq(addrs, 1, IF Len(addrs) < SliceEnd THEN Len(addrs) ELSE SliceEnd)

----------------------------------------------------------------------------
(* The feed document and its zone records *)

PropertyKeys ==
    {"zone_status", "zone_id", "zone_status_reason", "north_of", "east_of",
     "south_of", "west_of", "acreage", "est_population"}

NoFields == [k \in PropertyKeys |-> None]

ZoneFields(status) ==
    [k \in PropertyKeys |->
        CASE k = "zone_status" -> status
          [] k = "zone_id" -> "LAC-E042"
          [] k = "zone_status_reason" -> "Fire"
          [] k = "north_of" -> "Sunset Blvd"
          [] k = "east_of" -> "Pacific Coast Hwy"
          [] k = "south_of" -> "Mulholland Dr"
          [] k = "west_of" -> "I-405"
          [] k = "acreage" -> "1200"
          [] OTHER -> "3400"]

Statuses == {"Evacuation Order", "Evacuation Warning", "Normal"}

(* properties: the key may be absent from the feature, null, or a dict.    *)
(* Only .get reads a dict, so an absent key and a null value of the dict   *)
(* are both None; last_updated 0 stands for absent, null or zero.          *)
PropertyChoices ==
    {[kind |-> "absent", fields |-> NoFields, last_updated |-> 0],
     [kind |-> "null", fields |-> NoFields, last_updated |-> 0],
     [kind |-> "dict", fields |-> NoFields, last_updated |-> 0]}
    \cup {[kind |-> "dict", fields |-> ZoneFields(s), last_updated |-> 86400123]
            : s \in Statuses}

Rings ==
    {<<>>} \cup {<<a>> : a \in 1..MaxDist}
           \cup {<<a, b>> : a \in 1..MaxDist, b \in 1..MaxDist}

(* geometry kinds: "absent" (no geometry key, or no coordinates in it),    *)
(* "degenerate" (a ring of too few vertices), "MultiPolygon", "Polygon".   *)
Inside == [kind |-> "Polygon", contains |-> TRUE, ring |-> <<>>]

Outside(r) == [kind |-> "Polygon", contains |-> FALSE, ring |-> r]

Broken(k) == [kind |-> k, contains |-> FALSE, ring |-> <<>>]

FullProps(s) ==
    [kind |-> "dict", fields |-> ZoneFields(s), last_updated |-> 86400123]

Features ==
    {[geometry |-> Inside, properties |-> p] : p \in PropertyChoices}
    \cup {[geometry |-> Outside(r), properties |-> FullProps(s)]
            : r \in Rings, s \in {"Evacuation Order", "Evacuation Warning"}}
    \cup {[geometry |-> Broken(k), properties |-> FullProps("Evacuation Order")]
            : k \in {"absent", "degenerate", "MultiPolygon"}}

RECURSIVE SeqsUpTo(_, _)
SeqsUpTo(S, n) ==
    IF n = 0 THEN {<<>>}
    ELSE LET shorter == SeqsUpTo(S, n - 1)
         IN  shorter \cup {Append(q, x) : q \in {t \in shorter : Len(t) = n - 1}, x \in S}

Document(fs) == [has_features |-> TRUE, features |-> fs]

NoDocument == [has_features |-> FALSE, features |-> <<>>]

(* What the GET of the feed URL answers: the transport may fail, the body  *)
(* may not be JSON, and a JSON body may come with any HTTP status.         *)
Response(t, st, js, doc) ==
    [transport |-> t, status |-> st, is_json |-> js, document |-> doc]

FailedResponses ==
    {Response("error", 0, FALSE, NoDocument),
     Response("ok", 200, FALSE, NoDocument),
     Response("ok", 503, FALSE, NoDocument),
     Response("ok", 503, TRUE, NoDocument),
     Response("ok", 200, TRUE, NoDocument)}

----------------------------------------------------------------------------
(* find_evacuation_zones: one pass over the feed's features.  A zone is    *)
(* held by its position in the feed (the code holds a reference to the     *)
(* feature's properties); NoZone is the None of closest_zone.              *)

NoZone == 0

Min2(a, b) == IF b < a THEN b ELSE a

RECURSIVE MinDistance(_, _)
MinDistance(ring, min_distance) ==
    IF ring = <<>> THEN min_distance
    ELSE MinDistance(Tail(ring), Min2(min_distance, Head(ring)))

(* What the body of the try block does with one feature: a KeyError is    *)
(* not caught and leaves the function, "skip" is the except clause (a      *)
(* ValueError or an AttributeError), "match" and "measure" are the two     *)
(* branches of the containment test.                                       *)
Evaluate(feature) ==
    IF feature.geometry.kind = "absent" THEN "KeyError('geometry')"
    ELSE IF feature.geometry.kind = "degenerate" THEN "skip"
    ELSE IF feature.properties.kind = "absent" THEN "KeyError('properties')"
    ELSE IF feature.properties.kind = "null" THEN "skip"
    ELSE IF feature.geometry.contains THEN "match"
    ELSE IF feature.geometry.kind = "MultiPolygon" THEN "skip"
    ELSE "measure"

Raises(what) == what \in {"KeyError('geometry')", "KeyError('properties')"}

(* the comparison taken non-strict: a later zone at an equal distance wins *)
CloserOrEqual(min_distance, closest_distance) == min_distance <= closest_distance

Closer(min_distance, closest_distance) == min_distance < closest_distance

IsWarning(feature) == feature.properties.fields["zone_status"] = "Evacuation Warning"

StartScan ==
    [raised |-> "", matching_zones |-> <<>>,
     closest_distance |-> Inf, closest_zone |-> NoZone,
     closest_warning_distance |-> Inf, closest_warning_zone |-> NoZone]

Step(features, j, st) ==
    LET feature == features[j]
        what == Evaluate(feature)
        min_distance == MinDistance(feature.geometry.ring, Inf)
        nearer == Closer(min_distance, st.closest_distance)
        nearer_warning ==
            IsWarning(feature) /\ Closer(min_distance, st.closest_warning_distance)
    IN  CASE Raises(what) -> [st EXCEPT !.raised = what]
          [] what = "skip" -> st
          [] what = "match" ->
                [st EXCEPT !.matching_zones = Append(@, j)]
          [] OTHER ->
                [st EXCEPT
                   !.closest_distance = IF nearer THEN min_distance ELSE @,
                   !.closest_zone = IF nearer THEN j ELSE @,
                   !.closest_warning_distance =
                        IF nearer_warning THEN min_distance ELSE @,
                   !.closest_warning_zone = IF nearer_warning THEN j ELSE @]

RECURSIVE ScanFrom(_, _, _)
ScanFrom(features, j, st) ==
    IF j > Len(features) \/ st.raised # "" THEN st
    ELSE ScanFrom(features, j + 1, Step(features, j, st))

find_evacuation_zones(data) ==
    IF ~data.has_features THEN [StartScan EXCEPT !.raised = "KeyError('features')"]
    ELSE ScanFrom(data.features, 1, StartScan)

----------------------------------------------------------------------------
(* Result rows *)

Format2f(d) ==
    IF d = Inf THEN "inf"
    ELSE ToString(d \div 100) \o "." \o (IF d % 100 < 10 THEN "0" ELSE "")
         \o ToString(d % 100)

(* datetime.fromtimestamp(ms / 1000).strftime("%Y-%m-%d %H:%M:%S"): the    *)
(* text of the whole second the timestamp falls in.                        *)
FormatTimestamp(ms) == "second " \o ToString(ms \div 1000)

Row(address, order, warn, distance, fields, updated) ==
    [Address |-> address, EvacuationZone |-> order, EvacuationWarning |-> warn,
     Distance |-> distance, ZoneID |-> fields["zone_id"],
     ZoneStatus |-> fields["zone_status"],
     ZoneStatusReason |-> fields["zone_status_reason"],
     NorthOf |-> fields["north_of"], EastOf |-> fields["east_of"],
     SouthOf |-> fields["south_of"], WestOf |-> fields["west_of"],
     Acreage |-> fields["acreage"],
     EstimatedPopulation |-> fields["est_population"],
     LastUpdated |-> updated]

NotAvailableRow(address) ==
    Row(address, "Not Available", "Not Available", "N/A", NoFields, None)

(* the last containing zone taken instead of the first *)
LastMatch(matching_zones) == matching_zones[Len(matching_zones)]

Authoritative(matching_zones) == matching_zones[1]

YesNo(b) == IF b THEN "Yes" ELSE "No"

ZoneRow(address, zone) ==
    Row(address,
        YesNo(zone.fields["zone_status"] = "Evacuation Order"),
        YesNo(zone.fields["zone_status"] = "Evacuation Warning"),
        None, zone.fields,
        IF zone.last_updated # 0 THEN FormatTimestamp(zone.last_updated) ELSE None)

DistanceRow(address, closest_distance) ==
    Row(address, "No", "No", Format2f(closest_distance), NoFields, None)

ClassifiedRow(address, data, found) ==
    IF found.matching_zones # <<>>
    THEN ZoneRow(address, data.features[Authoritative(found.matching_zones)].properties)
    ELSE DistanceRow(address, found.closest_distance)

----------------------------------------------------------------------------
(* The script *)

Keys == {"absent", "", "AIza-key"}

(* What gmaps.geocode answers: a non-empty result list, an empty one, an   *)
(* ApiError (the provider's status is not OK), or an error of the          *)
(* transport (TransportError, Timeout), which is no ApiError.              *)
GeocodeOutcomes == {"result", "empty", "ApiError", "TransportError"}

Texts(n) == SeqsUpTo(Chars, n)

RECURSIVE Lines(_)
Lines(n) == IF n = 1 THEN <<"a">> ELSE <<"a", "\n">> \o Lines(n - 1)

LongTexts == {Lines(n) : n \in (MaxAddresses - 1)..(MaxAddresses + 2)}

ProbeFeeds ==
    {<<>>,
     <<[geometry |-> Inside, properties |-> FullProps("Evacuation Order")]>>,
     <<[geometry |-> Outside(<<1>>), properties |-> FullProps("Evacuation Warning")]>>}

Ok(features) == Response("ok", 200, TRUE, Document(features))

Start(inputs) ==
    /\ \E i \in inputs :
          /\ address_input = i[1]
          /\ api_key = i[2]
          /\ feed = i[3]
    /\ pc = "idle"
    /\ warning = ""
    /\ fetches = 0
    /\ geojson_data = NoDocument
    /\ results = <<>>
    /\ idx = 1
    /\ geocode_calls = <<>>
    /\ outcome = ""
    /\ zones = [StartScan EXCEPT !.raised = "not called"]
    /\ error = ""

(* Every text up to MaxTextLen and the texts around the batch limit, every *)
(* key, every failed fetch and a few feeds.                                *)
BatchInputs ==
    (Texts(MaxTextLen) \cup LongTexts) \X Keys
        \X (FailedResponses \cup {Ok(fs) : fs \in ProbeFeeds})

(* One or two addresses against every feed of up to MaxFeatures records,   *)
(* and the rejected texts, the keys and the failed fetches besides.        *)
ZoneInputs ==
    ({<<"a">>, <<"a", "\n", "a">>} \X {"AIza-key"}
        \X {Ok(fs) : fs \in SeqsUpTo(Features, MaxFeatures)})
    \cup ({<<>>, <<"a">>, Lines(MaxAddresses + 1)} \X Keys
            \X (FailedResponses \cup {Ok(fs) : fs \in ProbeFeeds}))

Init == Start(BatchInputs)

InitZones == Start(ZoneInputs)

(* st.button("Check Zones") with no address entered *)
WarnEmpty ==
    /\ pc = "idle"
    /\ NoAddress(addresses)
    /\ pc' = "warned"
    /\ warning' = "Please enter at least one address."
    /\ UNCHANGED <<address_input, api_key, feed, fetches, geojson_data, results,
                   idx, geocode_calls, outcome, zones, error>>

WarnTooMany ==
    /\ pc = "idle"
    /\ ~NoAddress(addresses)
    /\ TooManyAddresses(addresses)
    /\ pc' = "warned"
    /\ warning' = "Please enter a maximum of 10 addresses."
    /\ UNCHANGED <<address_input, api_key, feed, fetches, geojson_data, results,
                   idx, geocode_calls, outcome, zones, error>>

Accepted == ~NoAddress(addresses) /\ ~TooManyAddresses(addresses)

(* requests.get(geojson_url) raises, or response.json() does *)
FetchRaises ==
    /\ pc = "idle"
    /\ Accepted
    /\ feed.transport = "error" \/ ~feed.is_json
    /\ fetches' = fetches + 1
    /\ pc' = "exception"
    /\ error' = IF feed.transport = "error" THEN "ConnectionError" ELSE "JSONDecodeError"
    /\ UNCHANGED <<address_input, api_key, feed, warning, geojson_data, results,
                   idx, geocode_calls, outcome, zones>>

(* geojson_data = response.json(); results = [] *)
FetchFeed ==
    /\ pc = "idle"
    /\ Accepted
    /\ feed.transport = "ok"
    /\ feed.is_json
    /\ fetches' = fetches + 1
    /\ geojson_data' = feed.document
    /\ results' = <<>>
    /\ idx' = 1
    /\ pc' = "loop"
    /\ UNCHANGED <<address_input, api_key, feed, warning, geocode_calls, outcome,
                   zones, error>>

InLoop == pc = "loop" /\ idx <= Len(Batch(addresses))

address == Batch(addresses)[idx]

(* locate_property: st.secrets["GOOGLE_MAPS_API_KEY"] raises *)
SecretMissing ==
    /\ InLoop
    /\ api_key = "absent"
    /\ pc' = "exception"
    /\ error' = "KeyError('GOOGLE_MAPS_API_KEY')"
    /\ UNCHANGED <<address_input, api_key, feed, warning, fetches, geojson_data,
                   results, idx, geocode_calls, outcome, zones>>

(* locate_property returns None without calling the geocoder *)
SecretEmpty ==
    /\ InLoop
    /\ api_key = ""
    /\ results' = Append(results, NotAvailableRow(address))
    /\ idx' = idx + 1
    /\ outcome' = "no key"
    /\ UNCHANGED <<address_input, api_key, feed, pc, warning, fetches,
                   geojson_data, geocode_calls, zones, error>>

HasKey == api_key \notin {"absent", ""}

(* gmaps.geocode raises an exception that is no ApiError *)
GeocodeRaises ==
    /\ InLoop
    /\ HasKey
    /\ geocode_calls' = Append(geocode_calls, address)
    /\ outcome' = "TransportError"
    /\ pc' = "exception"
    /\ error' = "TransportError"
    /\ UNCHANGED <<address_input, api_key, feed, warning, fetches, geojson_data,
                   results, idx, zones>>

(* gmaps.geocode returns no result or raises ApiError: location is None *)
NotLocated ==
    /\ InLoop
    /\ HasKey
    /\ \E o \in {"empty", "ApiError"} : outcome' = o
    /\ geocode_calls' = Append(geocode_calls, address)
    /\ results' = Append(results, NotAvailableRow(address))
    /\ idx' = idx + 1
    /\ UNCHANGED <<address_input, api_key, feed, pc, warning, fetches,
                   geojson_data, zones, error>>

(* the address is located and find_evacuation_zones returns *)
Classified ==
    /\ InLoop
    /\ HasKey
    /\ LET found == find_evacuation_zones(geojson_data)
       IN  /\ found.raised = ""
           /\ zones' = found
           /\ results' = Append(results, ClassifiedRow(address, geojson_data, found))
    /\ outcome' = "result"
    /\ geocode_calls' = Append(geocode_calls, address)
    /\ idx' = idx + 1
    /\ UNCHANGED <<address_input, api_key, feed, pc, warning, fetches,
                   geojson_data, error>>

(* the address is located and find_evacuation_zones raises *)
ClassifyRaises ==
    /\ InLoop
    /\ HasKey
    /\ LET found == find_evacuation_zones(geojson_data)
       IN  /\ found.raised # ""
           /\ error' = found.raised
    /\ outcome' = "result"
    /\ geocode_calls' = Append(geocode_calls, address)
    /\ pc' = "exception"
    /\ UNCHANGED <<address_input, api_key, feed, warning, fetches, geojson_data,
                   results, idx, zones>>

(* the loop is over: the results are put in the table and displayed *)
Display ==
    /\ pc = "loop"
    /\ idx > Len(Batch(addresses))
    /\ pc' = "displayed"
    /\ UNCHANGED <<address_input, api_key, feed, warning, fetches, geojson_data,
                   results, idx, geocode_calls, outcome, zones, error>>

Next ==
    \/ WarnEmpty
    \/ WarnTooMany
    \/ FetchRaises
    \/ FetchFeed
    \/ SecretMissing
    \/ SecretEmpty
    \/ GeocodeRaises
    \/ NotLocated
    \/ Classified
    \/ ClassifyRaises
    \/ Display

Spec == Init /\ [][Next]_vars

SpecZones == InitZones /\ [][Next]_vars

----------------------------------------------------------------------------
(* Properties *)

LastRow == results[Len(results)]

FetchFailed(response) ==
    \/ response.transport = "error"
    \/ response.status \notin 200..299
    \/ ~response.is_json
    \/ ~response.document.has_features

AttributesNull(row) ==
    /\ row.ZoneID = None /\ row.ZoneStatus = None /\ row.ZoneStatusReason = None
    /\ row.NorthOf = None /\ row.EastOf = None /\ row.SouthOf = None
    /\ row.WestOf = None /\ row.Acreage = None
    /\ row.EstimatedPopulation = None /\ row.LastUpdated = None

IsNotAvailable(row) ==
    /\ row.EvacuationZone = "Not Available"
    /\ row.EvacuationWarning = "Not Available"
    /\ row.Distance = "N/A"
    /\ AttributesNull(row)

(* C1: once the loop over an accepted batch is over, the results hold one  *)
(* row per parsed input address, and row i carries address i.              *)
C1_OneRowPerAddress ==
    pc = "displayed" =>
        /\ Len(addresses) \in 1..10
        /\ Len(results) = Len(addresses)
        /\ \A i \in 1..Len(addresses) : results[i].Address = addresses[i]

(* a blank line between two equal addresses, the first not found and the   *)
(* last located *)
C1_Witness ==
    /\ pc = "displayed"
    /\ addresses = << <<"a">>, <<>>, <<"a">> >>
    /\ Len(results) = 3
    /\ IsNotAvailable(results[1])
    /\ ~IsNotAvailable(results[3])

ContainedState(row) == ~AttributesNull(row) /\ row.Distance = None

DistanceState(row) ==
    /\ row.Distance \notin {None, "N/A"}
    /\ row.EvacuationZone # "Not Available"
    /\ AttributesNull(row)

NumberOfStates(row) ==
    (IF ContainedState(row) THEN 1 ELSE 0) + (IF DistanceState(row) THEN 1 ELSE 0)
    + (IF IsNotAvailable(row) THEN 1 ELSE 0)

(* C2: every result row is in exactly one of the three states: zone        *)
(* attributes populated and no distance, a distance and no zone attribute, *)
(* or all not available.                                                   *)
C2_ExactlyOneState ==
    \A i \in 1..Len(results) : NumberOfStates(results[i]) = 1

(* C3: a geocoding failure (no result, or an error of the provider or the  *)
(* transport) never aborts the batch: the address gets the not-available   *)
(* row and the loop goes on.                                               *)
C3_GeocodeFailureIsolated ==
    (~FetchFailed(feed) /\ outcome \in {"empty", "ApiError", "TransportError"}) =>
        /\ pc # "exception"
        /\ Len(results) = Len(geocode_calls)
        /\ IsNotAvailable(LastRow)
        /\ LastRow.Address = geocode_calls[Len(geocode_calls)]

Malformed(feature) == feature.geometry.kind \in {"absent", "degenerate"}

Usable(feature) ==
    /\ feature.geometry.kind = "Polygon"
    /\ feature.properties.kind = "dict"

Containing(features) ==
    {j \in 1..Len(features) : Usable(features[j]) /\ features[j].geometry.contains}

(* C4: a zone record whose geometry cannot be constructed is skipped       *)
(* without raising, and a point inside a valid polygon of the same feed is *)
(* still reported as contained.                                            *)
C4_MalformedGeometrySkipped ==
    LET features == geojson_data.features
    IN  (/\ outcome = "result"
         /\ \E j \in 1..Len(features) : Malformed(features[j])
         /\ \A j \in 1..Len(features) : Malformed(features[j]) \/ Usable(features[j]))
        => /\ pc # "exception"
           /\ Containing(features) # {} => LastRow.Distance = None

(* C5: with no usable zone record in the feed, a located address gets the  *)
(* distance N/A, not a number and not an infinite distance.                *)
C5_NoZonesNotApplicable ==
    LET features == geojson_data.features
    IN  (/\ outcome = "result"
         /\ pc # "exception"
         /\ geojson_data.has_features
         /\ \A j \in 1..Len(features) : Evaluate(features[j]) = "skip")
        => LastRow.Distance = "N/A"

AllBlank(text) == \A i \in 1..Len(text) : text[i] \in Whitespace

LineCount(text) == Cardinality({i \in 1..Len(text) : text[i] = "\n"}) + 1

(* C6: a blank input or one of more than 10 address lines is rejected with *)
(* a warning before any external call: no fetch, no geocoding, no row.     *)
C6_RejectedBeforeAnyCall ==
    (pc # "idle" /\ (AllBlank(address_input) \/ LineCount(Strip(address_input)) > 10))
        => /\ pc = "warned"
           /\ warning # ""
           /\ fetches = 0
           /\ geocode_calls = <<>>
           /\ results = <<>>

C6_Witness ==
    /\ pc = "warned"
    /\ LineCount(Strip(address_input)) = 11
    /\ fetches = 0

(* C7: with the geocoder key absent or empty the batch fails before any    *)
(* geocoding: no geocoder call and no result row (the feed being fetched   *)
(* well).                                                                  *)
C7_MissingKeyIsFatal ==
    (~FetchFailed(feed) /\ api_key \in {"absent", ""}) =>
        /\ geocode_calls = <<>>
        /\ results = <<>>
        /\ pc # "displayed"

(* C8: a failed fetch of the feed (network error, status outside 2xx,      *)
(* unparsable or malformed document) is fatal for the batch: no address is *)
(* geocoded and no result row is produced or displayed (the geocoder key   *)
(* being set and the geocoder answering).                                  *)
C8_FeedFailureIsFatal ==
    (HasKey /\ outcome # "TransportError" /\ FetchFailed(feed)) =>
        /\ geocode_calls = <<>>
        /\ results = <<>>
        /\ pc # "displayed"

RingDistance(feature) ==
    CHOOSE d \in {feature.geometry.ring[i] : i \in 1..Len(feature.geometry.ring)} :
        \A i \in 1..Len(feature.geometry.ring) : d <= feature.geometry.ring[i]

Measured(features) ==
    {j \in 1..Len(features) :
        /\ Usable(features[j])
        /\ ~features[j].geometry.contains
        /\ features[j].geometry.ring # <<>>}

FirstNearest(features, S) ==
    IF S = {} THEN NoZone
    ELSE CHOOSE j \in S :
            \A k \in S :
                \/ RingDistance(features[j]) < RingDistance(features[k])
                \/ RingDistance(features[j]) = RingDistance(features[k]) /\ j <= k

(* C9: closest_zone is the first record in feed order at the least         *)
(* distance among the usable records that do not contain the point, and    *)
(* closest_warning_zone the same among those of status Evacuation Warning. *)
C9_FirstNearestWins ==
    LET features == geojson_data.features
        measured == Measured(features)
        warnings ==
            {j \in measured :
                features[j].properties.fields["zone_status"] = "Evacuation Warning"}
        nearest == FirstNearest(features, measured)
        nearest_warning == FirstNearest(features, warnings)
    IN  zones.raised = "" =>
            /\ zones.closest_zone = nearest
            /\ zones.closest_warning_zone = nearest_warning
            /\ nearest # NoZone =>
                    zones.closest_distance = RingDistance(features[nearest])
            /\ nearest_warning # NoZone =>
                    zones.closest_warning_distance =
                        RingDistance(features[nearest_warning])

(* two warning zones at the same distance, the first one kept *)
C9_Witness ==
    LET features == geojson_data.features
    IN  /\ zones.raised = ""
        /\ Len(features) = 2
        /\ Measured(features) = {1, 2}
        /\ RingDistance(features[1]) = RingDistance(features[2])
        /\ IsWarning(features[1]) /\ IsWarning(features[2])
        /\ zones.closest_zone = 1
        /\ zones.closest_warning_zone = 1

(* C10: matching_zones holds every usable record containing the point, in  *)
(* feed order, and the row of a contained address is taken from the first  *)
(* of them only: Order is Yes iff its status is Evacuation Order, Warning  *)
(* is Yes iff it is Evacuation Warning, and its attributes are shown.      *)
C10_FirstMatchIsAuthoritative ==
    LET features == geojson_data.features
        containing == Containing(features)
        m == zones.matching_zones
    IN  (outcome = "result" /\ pc # "exception") =>
            /\ Len(m) = Cardinality(containing)
            /\ {m[i] : i \in 1..Len(m)} = containing
            /\ \A a, b \in 1..Len(m) : a < b => m[a] < m[b]
            /\ containing # {} =>
                 LET first == CHOOSE j \in containing : \A k \in containing : j <= k
                     status == features[first].properties.fields["zone_status"]
                 IN  /\ LastRow.EvacuationZone = "Yes" <=> status = "Evacuation Order"
                     /\ LastRow.EvacuationZone = "No" <=> status # "Evacuation Order"
                     /\ LastRow.EvacuationWarning = "Yes" <=> status = "Evacuation Warning"
                     /\ LastRow.EvacuationWarning = "No" <=> status # "Evacuation Warning"
                     /\ LastRow.ZoneStatus = status
                     /\ LastRow.ZoneID = features[first].properties.fields["zone_id"]
                     /\ LastRow.Distance = None

(* two overlapping zones, the first of another status and the second under *)
(* an evacuation order: the row says No and No and shows the first zone    *)
C10_Witness ==
    LET features == geojson_data.features
    IN  /\ outcome = "result" /\ pc = "displayed"
        /\ zones.matching_zones = <<1, 2>>
        /\ features[1].properties.fields["zone_status"] = "Normal"
        /\ features[2].properties.fields["zone_status"] = "Evacuation Order"
        /\ LastRow.EvacuationZone = "No"
        /\ LastRow.EvacuationWarning = "No"
        /\ LastRow.ZoneStatus = "Normal"

====
